---- MODULE Spec2Model ----
(***************************************************************************)
(* Senyas (src/src/App.tsx): the hand-landmark analyzer, the letter        *)
(* matcher and the debounce timer of the App component, as a state machine.*)
(*                                                                         *)
(* Coordinates are normalized image coordinates in hundredths: the value   *)
(* 0.1 of the source is 10 here, 0.8 is 80.  Differences are exact here;   *)
(* the rounding of the doubles of the source is not modelled, so "size"    *)
(* always means the value the code computed.  A hand is a sequence of 21   *)
(* points; landmark i of the source is element i + 1 of the sequence.      *)
(*                                                                         *)
(* In Spec the 500 ms of the timer are not measured: a pending timer may   *)
(* run at any moment, which includes every schedule the real delays allow. *)
(* SpecTimed measures them: time passes in ticks of 100 ms and a timer     *)
(* runs once 500 ms have passed since window.setTimeout registered it.     *)
(***************************************************************************)
EXTENDS Integers, Sequences, FiniteSets, TLC

VARIABLES
    isCameraOpen,       \* useState isCameraOpen
    isRecording,        \* useState isRecording (what the button shows)
    closureRecording,   \* isRecording as captured by the registered hands callback
    currentLetter,      \* useState currentLetter: the output text, one element per append
    lastRecognized,     \* lastRecognizedRef.current
    recognitionTimeout, \* recognitionTimeoutRef.current: 0 is undefined, else a timer id
    timers,             \* pending window.setTimeout callbacks: records [id, letter, age],
                        \* age the ticks of 100 ms since the call, counted up to DebounceDelay
    handDistance,       \* useState handDistance
    geminiInFlight,     \* processWithGemini calls awaiting model.generateContent
    isProcessing,       \* useState isProcessing
    onResultsStatus,    \* the last hands.onResults call: "idle" before the first, "drawn"
                        \* (returned, no hand analysed), "analysed" (returned, some hand
                        \* analysed) or "threw"
    debounced,          \* history: letters appended by the timer callback since the last clearText
    fired,              \* history: letters of the timer callbacks that ran since the last clearText
    lastCandidate,      \* history: the last non-null letter recognizeLetter returned in onResults
    sinceCandidate,     \* history: the time since recognizeLetter last returned a letter in
                        \* onResults, in ticks of 100 ms, counted up to DebounceDelay
    arrivals,           \* history: for each letter the classification service appended since
                        \* the last clearText, the place its request had, oldest first, among
                        \* the requests in flight when the response arrived
    landmarks,          \* argument of the analyzeHandLandmarks call under study
    analyzeStatus,      \* that call: "pending", "returned" or "threw" (a TypeError)
    fingerStates,       \* its return value; with no hand under study, the argument of
                        \* the recognizeLetter call under study
    recognizedLetter,   \* return value of the recognizeLetter call under study
    imageData,          \* argument of the findLargestContour call under study
    scan,               \* the locals of findLargestContour when its raster scan ended
    boundingBox,        \* return value of findLargestContour
    pixel,              \* the r, g, b under study
    hsv,                \* return value of rgbToHsv(pixel)
    skin                \* return value of isSkinColor(hsv): "pending", "yes" or "no"

\* The calls studied on their own, outside the App state machine.
studyVars == <<landmarks, analyzeStatus, fingerStates, recognizedLetter, imageData, scan,
               boundingBox, pixel, hsv, skin>>

\* The App state apart from handDistance.
sessionVars == <<isCameraOpen, isRecording, closureRecording, currentLetter, lastRecognized,
                 recognitionTimeout, timers, geminiInFlight, isProcessing,
                 onResultsStatus, debounced, fired, lastCandidate, sinceCandidate,
                 arrivals>>

vars == <<sessionVars, handDistance, studyVars>>

----------------------------------------------------------------------------
(* Bounds of the model *)

MaxText == 3        \* appends to the output text explored
MaxFired == 3       \* timer callbacks run between two clearText explored
MaxInFlight == 2    \* classification requests in flight explored
MaskWidth == 3      \* width of the masks explored
MaskHeight == 3     \* height of the masks explored

----------------------------------------------------------------------------
(* Program constants *)

Infinity == 1000000         \* stands for the IEEE infinity that seeds the bounding box
TooFarBelow == 10           \* size < 0.1
TooCloseAbove == 80         \* size > 0.8
ThumbThreshold == 10        \* Math.abs(tip.x - mcp.x) > 0.1
threshold == 10             \* const threshold = 0.1
maxNumHands == 2            \* hands.setOptions({ maxNumHands: 2 })
DebounceDelay == 5          \* window.setTimeout(..., 500): 500 ms in ticks of 100 ms

----------------------------------------------------------------------------
(* Arithmetic helpers: Math.min, Math.max, Math.abs *)

MathMin(a, b) == IF a < b THEN a ELSE b
MathMax(a, b) == IF a > b THEN a ELSE b
MathAbs(a) == IF a < 0 THEN 0 - a ELSE a

Point(px, py) == [x |-> px, y |-> py]

\* landmarks[i] of the source
LM(lm, i) == lm[i + 1]

----------------------------------------------------------------------------
(* analyzeHandLandmarks *)

\* The bounding box accumulated by landmarks.forEach over the first n points.
RECURSIVE BoundingBox(_, _)
BoundingBox(lm, n) ==
    IF n = 0
    THEN [minX |-> Infinity, minY |-> Infinity, maxX |-> 0 - Infinity, maxY |-> 0 - Infinity]
    ELSE LET b == BoundingBox(lm, n - 1)
             p == lm[n]
         IN  [minX |-> MathMin(b.minX, p.x), minY |-> MathMin(b.minY, p.y),
              maxX |-> MathMax(b.maxX, p.x), maxY |-> MathMax(b.maxY, p.y)]

HandSize(lm) ==
    LET b == BoundingBox(lm, Len(lm))
        width == b.maxX - b.minX
        height == b.maxY - b.minY
    IN  MathMax(width, height)

\* calculateHandSize with the two bounds taken exclusive.
calculateHandSize_exclusive(lm) ==
    IF HandSize(lm) <= TooFarBelow THEN "too_far"
    ELSE IF HandSize(lm) >= TooCloseAbove THEN "too_close"
    ELSE "good"

\* The value calculateHandSize passes to setHandDistance.
calculateHandSize(lm) ==
    IF HandSize(lm) < TooFarBelow THEN "too_far"
    ELSE IF HandSize(lm) > TooCloseAbove THEN "too_close"
    ELSE "good"

\* isFingerExtended with the three comparisons taken inclusive.
isFingerExtended_inclusive(lm, tip, mcp, pip) ==
    IF tip = 4
    THEN MathAbs(LM(lm, tip).x - LM(lm, mcp).x) >= ThumbThreshold
    ELSE /\ LM(lm, tip).y <= LM(lm, mcp).y - threshold
         /\ LM(lm, tip).y <= LM(lm, pip).y - threshold

\* tip === thumbTip holds for landmark 4 only; the other fingers take the branch below it.
isFingerExtended(lm, tip, mcp, pip) ==
    IF tip = 4
    THEN MathAbs(LM(lm, tip).x - LM(lm, mcp).x) > ThumbThreshold
    ELSE /\ LM(lm, tip).y < LM(lm, mcp).y - threshold
         /\ LM(lm, tip).y < LM(lm, pip).y - threshold

\* landmarks[i] is an element of the array, not undefined.
isDefined(lm, i) == i + 1 <= Len(lm)

\* isFingerExtended reads a property of undefined: tip and mcp in the thumb branch,
\* which is taken when tip === thumbTip, two absent landmarks included; tip, mcp and,
\* when the first comparison holds, pip in the other branch.
fingerThrows(lm, tip, mcp, pip) ==
    IF tip = 4 \/ (~isDefined(lm, tip) /\ ~isDefined(lm, 4))
    THEN ~isDefined(lm, tip) \/ ~isDefined(lm, mcp)
    ELSE \/ ~isDefined(lm, tip)
         \/ ~isDefined(lm, mcp)
         \/ (LM(lm, tip).y < LM(lm, mcp).y - threshold /\ ~isDefined(lm, pip))

\* analyzeHandLandmarks ends in a TypeError: the distance is good and one of the
\* five isFingerExtended calls throws.
analyzeThrows(lm) ==
    /\ calculateHandSize(lm) = "good"
    /\ \/ fingerThrows(lm, 4, 2, 3)
       \/ fingerThrows(lm, 8, 6, 7)
       \/ fingerThrows(lm, 12, 10, 11)
       \/ fingerThrows(lm, 16, 14, 15)
       \/ fingerThrows(lm, 20, 18, 19)

\* null, in the shape of a finger-state record
NullStates ==
    [isNull |-> TRUE, thumb |-> FALSE, index |-> FALSE, middle |-> FALSE,
     ring |-> FALSE, pinky |-> FALSE, isCurved |-> FALSE]

\* analyzeHandLandmarks with isCurved: true in the finger states.
analyzeHandLandmarks_curved(lm) ==
    IF calculateHandSize(lm) # "good"
    THEN NullStates
    ELSE [isNull |-> FALSE,
          thumb |-> isFingerExtended(lm, 4, 2, 3),
          index |-> isFingerExtended(lm, 8, 6, 7),
          middle |-> isFingerExtended(lm, 12, 10, 11),
          ring |-> isFingerExtended(lm, 16, 14, 15),
          pinky |-> isFingerExtended(lm, 20, 18, 19),
          isCurved |-> TRUE]

\* The return value of analyzeHandLandmarks.
analyzeHandLandmarks(lm) ==
    IF calculateHandSize(lm) # "good"
    THEN NullStates
    ELSE [isNull |-> FALSE,
          thumb |-> isFingerExtended(lm, 4, 2, 3),
          index |-> isFingerExtended(lm, 8, 6, 7),
          middle |-> isFingerExtended(lm, 12, 10, 11),
          ring |-> isFingerExtended(lm, 16, 14, 15),
          pinky |-> isFingerExtended(lm, 20, 18, 19),
          isCurved |-> FALSE]

----------------------------------------------------------------------------
(* ASL_LETTERS and recognizeLetter *)

\* A table entry; curved is "true", "false" or "absent" (isCurved not written).
Pat(l, t, i, m, r, p, c) ==
    [letter |-> l, thumb |-> t, index |-> i, middle |-> m, ring |-> r, pinky |-> p,
     curved |-> c]

\* The table in insertion order, which is the order Object.entries yields.
ASL_LETTERS == <<
    Pat("A", TRUE, FALSE, FALSE, FALSE, FALSE, "false"),
    Pat("B", FALSE, TRUE, TRUE, TRUE, TRUE, "absent"),
    Pat("C", TRUE, TRUE, TRUE, TRUE, TRUE, "true"),
    Pat("D", TRUE, TRUE, TRUE, FALSE, FALSE, "absent"),
    Pat("E", TRUE, FALSE, FALSE, FALSE, FALSE, "true"),
    Pat("F", TRUE, TRUE, TRUE, FALSE, FALSE, "absent"),
    Pat("G", TRUE, TRUE, FALSE, FALSE, FALSE, "absent"),
    Pat("H", TRUE, TRUE, TRUE, FALSE, FALSE, "absent"),
    Pat("I", TRUE, FALSE, FALSE, FALSE, TRUE, "absent"),
    Pat("K", TRUE, TRUE, TRUE, FALSE, FALSE, "absent"),
    Pat("L", TRUE, TRUE, FALSE, FALSE, FALSE, "absent"),
    Pat("M", TRUE, FALSE, FALSE, FALSE, FALSE, "true"),
    Pat("N", TRUE, FALSE, FALSE, FALSE, FALSE, "true"),
    Pat("O", TRUE, FALSE, FALSE, FALSE, FALSE, "true"),
    Pat("P", TRUE, TRUE, TRUE, FALSE, FALSE, "absent"),
    Pat("Q", TRUE, TRUE, FALSE, FALSE, FALSE, "absent"),
    Pat("R", TRUE, TRUE, TRUE, FALSE, FALSE, "absent"),
    Pat("S", TRUE, FALSE, FALSE, FALSE, FALSE, "absent"),
    Pat("T", TRUE, TRUE, FALSE, FALSE, FALSE, "absent"),
    Pat("U", TRUE, TRUE, TRUE, FALSE, FALSE, "absent"),
    Pat("V", TRUE, TRUE, TRUE, FALSE, FALSE, "absent"),
    Pat("W", TRUE, TRUE, TRUE, TRUE, TRUE, "absent"),
    Pat("X", TRUE, TRUE, FALSE, FALSE, FALSE, "absent"),
    Pat("Y", TRUE, FALSE, FALSE, FALSE, TRUE, "absent"),
    Pat("Z", TRUE, TRUE, FALSE, FALSE, FALSE, "absent") >>

\* The condition of the if inside the loop of recognizeLetter.  !pattern.isCurved is
\* true for an absent and for a false isCurved.
PatternMatches(pattern, fs) ==
    /\ pattern.thumb = fs.thumb
    /\ pattern.index = fs.index
    /\ pattern.middle = fs.middle
    /\ pattern.ring = fs.ring
    /\ pattern.pinky = fs.pinky
    /\ \/ pattern.curved # "true"
       \/ (pattern.curved = "true") = fs.isCurved

\* The loop of recognizeLetter from entry k on; "null" when it runs off the table.
RECURSIVE recognizeFrom(_, _)
recognizeFrom(fs, k) ==
    IF k > Len(ASL_LETTERS) THEN "null"
    ELSE IF PatternMatches(ASL_LETTERS[k], fs) THEN ASL_LETTERS[k].letter
    ELSE recognizeFrom(fs, k + 1)

\* recognizeLetter: reading fingerStates.thumb of null throws a TypeError on the
\* first table entry.
recognizeLetter(fs) ==
    IF fs.isNull THEN "TypeError" ELSE recognizeFrom(fs, 1)

----------------------------------------------------------------------------
(* findLargestContour (src/unnamed/part_002) *)

\* An ImageData reduced to what findLargestContour reads: its width and height and
\* the pixels <<x, y>> whose red byte is 255.
Image(w, h, white) == [width |-> w, height |-> h, white |-> white]

getPixelIndex(img, x, y) == (y * img.width + x) * 4

isWhitePixel(img, x, y) ==
    IF x < 0 \/ x >= img.width \/ y < 0 \/ y >= img.height THEN FALSE
    ELSE <<x, y>> \in img.white

\* The neighbors array with the four diagonal entries left out.
neighbors_4connected(x, y) ==
    << <<x + 1, y>>, <<x - 1, y>>, <<x, y + 1>>, <<x, y - 1>> >>

\* The neighbors array of floodFill, in its order.
neighbors(x, y) ==
    << <<x + 1, y>>, <<x - 1, y>>, <<x, y + 1>>, <<x, y - 1>>,
       <<x + 1, y + 1>>, <<x - 1, y - 1>>, <<x + 1, y - 1>>, <<x - 1, y + 1>> >>

\* The test before stack.push without its visited part.
shouldPush_ignoresVisited(img, visited, nx, ny) == isWhitePixel(img, nx, ny)

\* if (!visited.has(getPixelIndex(nx, ny)) && isWhitePixel(nx, ny))
shouldPush(img, visited, nx, ny) ==
    /\ getPixelIndex(img, nx, ny) \notin visited
    /\ isWhitePixel(img, nx, ny)

\* The while loop of floodFill.  f holds its locals (stack, contour, area), the
\* visited set it shares with the scan, the numbers of pushes and of pops
\* (iterations) so far, and the pixels pushed so far, in order.
RECURSIVE floodLoop(_, _)
floodLoop(img, f) ==
    IF f.stack = <<>> THEN f
    ELSE LET top == f.stack[Len(f.stack)]
             rest == SubSeq(f.stack, 1, Len(f.stack) - 1)
             x == top[1]
             y == top[2]
             idx == getPixelIndex(img, x, y)
             seen == f.visited \cup {idx}
             pushed == SelectSeq(neighbors(x, y),
                           LAMBDA n : shouldPush(img, seen, n[1], n[2]))
         IN  IF idx \in f.visited
             THEN floodLoop(img, [f EXCEPT !.stack = rest, !.pops = @ + 1])
             ELSE IF ~isWhitePixel(img, x, y)
             THEN floodLoop(img, [f EXCEPT !.stack = rest, !.pops = @ + 1,
                                           !.visited = seen])
             ELSE floodLoop(img, [f EXCEPT !.stack = rest \o pushed, !.pops = @ + 1,
                                           !.visited = seen,
                                           !.contour = Append(@, top), !.area = @ + 1,
                                           !.pushes = @ + Len(pushed),
                                           !.pushLog = @ \o pushed])

\* floodFill(startX, startY) with the visited set as it stands.
floodFill(img, visited, startX, startY) ==
    floodLoop(img, [stack |-> << <<startX, startY>> >>, visited |-> visited,
                    contour |-> <<>>, area |-> 0, pushes |-> 1, pops |-> 0,
                    pushLog |-> << <<startX, startY>> >>])

\* if (area > maxArea) with >= in place of >.
isLarger_orEqual(area, maxArea) == area >= maxArea

\* if (area > maxArea)
isLarger(area, maxArea) == area > maxArea

\* The locals of findLargestContour before the scan, with the contours found and
\* the pushes made so far.
IdleScan ==
    [visited |-> {}, largestContour |-> <<>>, maxArea |-> 0, contours |-> <<>>,
     areas |-> <<>>, pushes |-> 0, pops |-> 0, pushLog |-> <<>>]

\* The two nested for loops from raster position k = y * width + x on.
RECURSIVE scanFrom(_, _, _)
scanFrom(img, sc, k) ==
    IF k >= img.width * img.height THEN sc
    ELSE LET x == k % img.width
             y == k \div img.width
             f == floodFill(img, sc.visited, x, y)
         IN  IF getPixelIndex(img, x, y) \notin sc.visited /\ isWhitePixel(img, x, y)
             THEN scanFrom(img,
                      [visited |-> f.visited,
                       largestContour |-> IF isLarger(f.area, sc.maxArea) THEN f.contour
                                          ELSE sc.largestContour,
                       maxArea |-> IF isLarger(f.area, sc.maxArea) THEN f.area
                                   ELSE sc.maxArea,
                       contours |-> Append(sc.contours, f.contour),
                       areas |-> Append(sc.areas, f.area),
                       pushes |-> sc.pushes + f.pushes,
                       pops |-> sc.pops + f.pops,
                       pushLog |-> sc.pushLog \o f.pushLog],
                      k + 1)
             ELSE scanFrom(img, sc, k + 1)

\* if (largestContour.length === 0) return null, with the test never true.
hasNoContour_never(contour) == FALSE

\* if (largestContour.length === 0) return null
hasNoContour(contour) == contour = <<>>

\* The bounding-box loop over the first n points of the contour.
RECURSIVE contourBox(_, _, _)
contourBox(img, contour, n) ==
    IF n = 0
    THEN [minX |-> img.width, minY |-> img.height, maxX |-> 0, maxY |-> 0]
    ELSE LET b == contourBox(img, contour, n - 1)
             pt == contour[n]
         IN  [minX |-> MathMin(b.minX, pt[1]), minY |-> MathMin(b.minY, pt[2]),
              maxX |-> MathMax(b.maxX, pt[1]), maxY |-> MathMax(b.maxY, pt[2])]

Box(st, bx, by, bw, bh) == [status |-> st, x |-> bx, y |-> by, width |-> bw, height |-> bh]
PendingBox == Box("pending", 0, 0, 0, 0)
NullBox == Box("null", 0, 0, 0, 0)

\* The return value with width and height counted in pixels.
contourResult_pixelCount(img, sc) ==
    IF hasNoContour(sc.largestContour) THEN NullBox
    ELSE LET b == contourBox(img, sc.largestContour, Len(sc.largestContour))
         IN  Box("box", b.minX, b.minY, b.maxX - b.minX + 1, b.maxY - b.minY + 1)

\* The return value of findLargestContour, given the locals the scan left.
contourResult(img, sc) ==
    IF hasNoContour(sc.largestContour) THEN NullBox
    ELSE LET b == contourBox(img, sc.largestContour, Len(sc.largestContour))
         IN  Box("box", b.minX, b.minY, b.maxX - b.minX, b.maxY - b.minY)

IdleImage == Image(0, 0, {})

----------------------------------------------------------------------------
(* rgbToHsv and isSkinColor (src/unnamed/part_002) *)

\* SKIN_COLOR_RANGE
SkinLowerH == 0
SkinLowerS == 20
SkinLowerV == 70
SkinUpperH == 20
SkinUpperS == 255
SkinUpperV == 255

\* Math.round of the fraction n / d, d > 0: halves go up.
MathRound(n, d) == (2 * n + d) \div (2 * d)

\* An h, s, v triple.  s and v are fractions, s = sNum / sDen and v = vNum / vDen, so
\* that no rounding is added to the comparisons.
Hsv(hh, sn, sd, vn, vd) == [h |-> hh, sNum |-> sn, sDen |-> sd, vNum |-> vn, vDen |-> vd]

\* The hue in degrees that rgbToHsv computes; max, min, delta are in 255ths.
hueOf(r, g, b) ==
    LET max == MathMax(r, MathMax(g, b))
        min == MathMin(r, MathMin(g, b))
        delta == max - min
        sixth == IF max = r THEN g - b
                 ELSE IF max = g THEN (b - r) + 2 * delta
                 ELSE (r - g) + 4 * delta
        rounded == MathRound(60 * sixth, delta)
    IN  IF delta = 0 THEN 0
        ELSE IF rounded < 0 THEN rounded + 360 ELSE rounded

\* rgbToHsv with s and v left on the byte scale.
rgbToHsv_byteScale(r, g, b) ==
    LET max == MathMax(r, MathMax(g, b))
        min == MathMin(r, MathMin(g, b))
    IN  Hsv(hueOf(r, g, b),
            IF max = 0 THEN 0 ELSE (max - min) * 255, IF max = 0 THEN 1 ELSE max,
            max * 255, 255)

\* rgbToHsv: s = (max === 0 ? 0 : delta / max) * 100, v = max * 100 with max = byte / 255.
rgbToHsv(r, g, b) ==
    LET max == MathMax(r, MathMax(g, b))
        min == MathMin(r, MathMin(g, b))
    IN  Hsv(hueOf(r, g, b),
            IF max = 0 THEN 0 ELSE (max - min) * 100, IF max = 0 THEN 1 ELSE max,
            max * 100, 255)

isSkinColor(c) ==
    /\ c.h >= SkinLowerH
    /\ c.h <= SkinUpperH
    /\ c.sNum >= SkinLowerS * c.sDen
    /\ c.sNum <= SkinUpperS * c.sDen
    /\ c.vNum >= SkinLowerV * c.vDen
    /\ c.vNum <= SkinUpperV * c.vDen

IdlePixel == [r |-> 0, g |-> 0, b |-> 0]
IdleHsv == Hsv(0 - 1, 0, 1, 0, 1)

----------------------------------------------------------------------------
(* Input hands *)

\* A hand whose thumb tip is dx right of its mcp, whose wrist is wristDy below the
\* knuckles, and whose finger k has its pip shapes[k][1] and its tip shapes[k][2]
\* above its mcp; every other landmark sits on the knuckle point.
Hand(dx, shapes, wristDy) ==
    [n \in 1..21 |->
        LET i == n - 1
            k == (i - 5) \div 4 + 1
        IN  IF i = 0 THEN Point(50, 18 + wristDy)
            ELSE IF i = 4 THEN Point(50 + dx, 18)
            ELSE IF i \in {7, 11, 15, 19} THEN Point(50, 18 - shapes[k][1])
            ELSE IF i \in {8, 12, 16, 20} THEN Point(50, 18 - shapes[k][2])
            ELSE Point(50, 18)]

FingerShapes == {<<0, 0>>, <<0, 10>>, <<0, 11>>, <<5, 15>>, <<5, 16>>}

\* Hands at good distance whose thumb tip is 12 above and whose thumb mcp is 3 below
\* the knuckle line: the y coordinates of the thumb vary, its x offset does not.
ThumbLifted ==
    {[Hand(dx, <<s, s, s, s>>, 10) EXCEPT ![5].y = @ - 12, ![3].y = @ + 3] :
        dx \in {0 - 11, 0, 10, 11}, s \in FingerShapes}

\* The hands the analyzer is studied on: every boundary of the distance gate and of
\* the extension tests occurs.
HandInputs ==
    {Hand(dx, <<s1, s2, s3, s4>>, w) :
        dx \in {0 - 11, 0, 10, 11}, s1 \in FingerShapes, s2 \in FingerShapes,
        s3 \in FingerShapes, s4 \in FingerShapes, w \in {0, 9, 10, 69, 70, 80, 81}}
    \cup ThumbLifted

Curled == <<0, 0>>
Straight == <<0, 11>>
PoseA == Hand(11, <<Curled, Curled, Curled, Curled>>, 0)
PoseB == Hand(0, <<Straight, Straight, Straight, Straight>>, 0)
PoseNoLetter == Hand(0, <<Curled, Curled, Curled, Curled>>, 10)
PoseTooFar == Hand(0, <<Curled, Curled, Curled, Curled>>, 0)
PoseTooClose == Hand(0, <<Curled, Curled, Curled, Curled>>, 81)

FrameHands == {PoseA, PoseB, PoseNoLetter, PoseTooFar, PoseTooClose}

\* results.multiHandLandmarks of one frame: at most maxNumHands hands.
Frames == UNION {[1..n -> FrameHands] : n \in 0..maxNumHands}

\* Hands cut short: the first n landmarks of a hand, n below 21.
ShortHands ==
    {SubSeq(Hand(dx, <<s, s, s, s>>, w), 1, n) :
        dx \in {0, 11}, s \in {Curled, Straight}, w \in {0, 10, 81}, n \in 0..20}

\* Every finger-state vector: the five finger flags and isCurved.
VectorInputs ==
    {[isNull |-> FALSE, thumb |-> t, index |-> i, middle |-> m, ring |-> r,
      pinky |-> p, isCurved |-> c] :
        t \in BOOLEAN, i \in BOOLEAN, m \in BOOLEAN, r \in BOOLEAN, p \in BOOLEAN,
        c \in BOOLEAN}

\* Every mask of MaskWidth by MaskHeight pixels.
ImageInputs ==
    {Image(MaskWidth, MaskHeight, white) :
        white \in SUBSET ((0..(MaskWidth - 1)) \X (0..(MaskHeight - 1)))}

\* Channel values: every 17th byte, and the two bytes around v = 70.
ChannelInputs == {17 * k : k \in 0..15} \cup {178, 179}

PixelInputs == [r : ChannelInputs, g : ChannelInputs, b : ChannelInputs]

\* What the classification service can answer: a letter, the token unknown, or a
\* rejected call.
GeminiOutcomes == {"A", "unknown", "reject"}

\* The same with the answers the prompt does not ask for: an empty text, a sentence.
GeminiResponses == GeminiOutcomes \cup {"", "maybe B"}

\* The frames the classification path is studied on: up to maxNumHands hands that
\* are all at good distance, so that every hand analysed starts a request.
GeminiFrames == UNION {[1..n -> {PoseA}] : n \in 0..maxNumHands}

----------------------------------------------------------------------------
(* The App component *)

\* The App component as constructed.
AppInit ==
    /\ isCameraOpen = FALSE
    /\ isRecording = FALSE
    /\ closureRecording = FALSE
    /\ currentLetter = <<>>
    /\ lastRecognized = ""
    /\ recognitionTimeout = 0
    /\ timers = {}
    /\ handDistance = "null"
    /\ geminiInFlight = 0
    /\ isProcessing = FALSE
    /\ onResultsStatus = "idle"
    /\ debounced = <<>>
    /\ fired = <<>>
    /\ lastCandidate = "null"
    /\ sinceCandidate = DebounceDelay
    /\ arrivals = <<>>

\* No call under study.
NoHand == /\ landmarks = <<>>
          /\ analyzeStatus = "none"
NoVector == /\ fingerStates = NullStates
            /\ recognizedLetter = "pending"
NoImage == /\ imageData = IdleImage
           /\ scan = IdleScan
           /\ boundingBox = PendingBox
NoPixel == /\ pixel = IdlePixel
           /\ hsv = IdleHsv
           /\ skin = "pending"

Init == AppInit /\ NoHand /\ NoVector /\ NoImage /\ NoPixel

\* toggleCamera with the camera closed: startCamera, getUserMedia granted (a refusal
\* is caught and changes nothing).
\* setupHandTracking registers a hands.onResults callback that closes over the
\* isRecording of the render that ran it.
startCamera ==
    /\ ~isCameraOpen
    /\ isCameraOpen' = TRUE
    /\ closureRecording' = isRecording
    /\ UNCHANGED <<isRecording, currentLetter, lastRecognized, recognitionTimeout, timers,
                   handDistance, geminiInFlight, isProcessing, onResultsStatus,
                   debounced, fired, lastCandidate, sinceCandidate, arrivals, studyVars>>

\* toggleCamera with the camera open: stopCamera closes the hands instance.
stopCamera ==
    /\ isCameraOpen
    /\ isCameraOpen' = FALSE
    /\ UNCHANGED <<isRecording, closureRecording, currentLetter, lastRecognized,
                   recognitionTimeout, timers, handDistance, geminiInFlight,
                   isProcessing, onResultsStatus, debounced, fired, lastCandidate,
                   sinceCandidate, arrivals, studyVars>>

\* toggleRecording that also resets the debounce state when recording starts.
toggleRecording_resets ==
    /\ isCameraOpen
    /\ isRecording' = ~isRecording
    /\ lastRecognized' = IF isRecording THEN lastRecognized ELSE ""
    /\ timers' = IF isRecording THEN timers ELSE {}
    /\ UNCHANGED <<isCameraOpen, closureRecording, currentLetter, recognitionTimeout,
                   handDistance, geminiInFlight, isProcessing, onResultsStatus,
                   debounced, fired, lastCandidate, sinceCandidate, arrivals, studyVars>>

\* The recording button is rendered only while the camera is open.  recordedSignsRef
\* is written here and read nowhere.
toggleRecording ==
    /\ isCameraOpen
    /\ isRecording' = ~isRecording
    /\ UNCHANGED <<isCameraOpen, closureRecording, currentLetter, lastRecognized,
                   recognitionTimeout, timers, handDistance, geminiInFlight,
                   isProcessing, onResultsStatus, debounced, fired, lastCandidate,
                   sinceCandidate, arrivals, studyVars>>

\* clearText that also cancels the pending timer.
clearText_cancelsTimer ==
    /\ currentLetter' = <<>>
    /\ lastRecognized' = ""
    /\ debounced' = <<>>
    /\ fired' = <<>>
    /\ arrivals' = <<>>
    /\ timers' = {t \in timers : t.id # recognitionTimeout}
    /\ recognitionTimeout' = 0
    /\ UNCHANGED <<isCameraOpen, isRecording, closureRecording, handDistance,
                   geminiInFlight, isProcessing, onResultsStatus, lastCandidate,
                   sinceCandidate, studyVars>>

\* clearText that empties the text and leaves lastRecognizedRef alone.
clearText_keepsLast ==
    /\ currentLetter' = <<>>
    /\ debounced' = <<>>
    /\ fired' = <<>>
    /\ arrivals' = <<>>
    /\ UNCHANGED <<isCameraOpen, isRecording, closureRecording, lastRecognized,
                   recognitionTimeout, timers, handDistance, geminiInFlight, isProcessing,
                   onResultsStatus, lastCandidate, sinceCandidate, studyVars>>

clearText ==
    /\ currentLetter' = <<>>
    /\ lastRecognized' = ""
    /\ debounced' = <<>>
    /\ fired' = <<>>
    /\ arrivals' = <<>>
    /\ UNCHANGED <<isCameraOpen, isRecording, closureRecording, recognitionTimeout, timers,
                   handDistance, geminiInFlight, isProcessing, onResultsStatus, lastCandidate,
                   sinceCandidate, studyVars>>

----------------------------------------------------------------------------
(* hands.onResults *)

\* The restart of the timer without the clearTimeout.
clearPending_none(ts, ref) == ts

\* if (recognitionTimeoutRef.current) clearTimeout(recognitionTimeoutRef.current):
\* the pending timers that remain.
clearPending(ts, ref) ==
    IF ref # 0 THEN {t \in ts : t.id # ref} ELSE ts

\* The id window.setTimeout returns: one the program holds nowhere.  Ids are only
\* ever compared for equality, so the least free one stands for any fresh id.
freshTimerId(ts, ref) ==
    CHOOSE i \in 1..(Cardinality(ts) + 2) :
        /\ i # ref
        /\ \A t \in ts : t.id # i
        /\ \A j \in 1..(i - 1) : j = ref \/ \E t \in ts : t.id = j

\* What the callback computes from one hand: the distance analyzeHandLandmarks
\* reports, the value it returns, and what recognizeLetter makes of that value.
handReport(lm) ==
    [distance |-> calculateHandSize(lm),
     fingerStates |-> analyzeHandLandmarks(lm),
     letter |-> recognizeLetter(analyzeHandLandmarks(lm))]

frameReports == [lm \in FrameHands |-> handReport(lm)]

\* The part of the App state one hand of a frame can change, with the number of
\* hands analysed so far and whether the callback has thrown.
HandlerState ==
    [timers |-> timers, ref |-> recognitionTimeout, handDistance |-> handDistance,
     inFlight |-> geminiInFlight, isProcessing |-> isProcessing,
     lastCandidate |-> lastCandidate, sinceCandidate |-> sinceCandidate,
     analysed |-> 0, threw |-> FALSE]

\* The body for one hand with processWithGemini skipped while isProcessing is set.
processHand_oneAtATime(st, lm) ==
    LET r == frameReports[lm]
        analysed ==
            IF r.fingerStates.isNull \/ st.isProcessing
            THEN [st EXCEPT !.handDistance = r.distance, !.analysed = @ + 1]
            ELSE [st EXCEPT !.handDistance = r.distance, !.analysed = @ + 1,
                            !.inFlight = @ + 1, !.isProcessing = TRUE]
        kept == clearPending(analysed.timers, analysed.ref)
        id == freshTimerId(kept, analysed.ref)
    IN  IF r.letter = "TypeError" THEN [analysed EXCEPT !.threw = TRUE]
        ELSE IF r.letter = "null" THEN analysed
        ELSE [analysed EXCEPT !.timers = kept \cup {[id |-> id, letter |-> r.letter, age |-> 0]},
                              !.ref = id, !.lastCandidate = r.letter,
                              !.sinceCandidate = 0]

\* The body for one hand with the clearTimeout moved ahead of the test of the
\* recognized letter, so that a hand without a letter cancels the pending timer.
processHand_cancelsOnNull(st, lm) ==
    LET r == frameReports[lm]
        analysed ==
            IF r.fingerStates.isNull
            THEN [st EXCEPT !.handDistance = r.distance, !.analysed = @ + 1]
            ELSE [st EXCEPT !.handDistance = r.distance, !.analysed = @ + 1,
                            !.inFlight = @ + 1, !.isProcessing = TRUE]
        kept == clearPending(analysed.timers, analysed.ref)
        id == freshTimerId(kept, analysed.ref)
    IN  IF r.letter = "TypeError" THEN [analysed EXCEPT !.threw = TRUE]
        ELSE IF r.letter = "null" THEN [analysed EXCEPT !.timers = kept]
        ELSE [analysed EXCEPT !.timers = kept \cup {[id |-> id, letter |-> r.letter, age |-> 0]},
                              !.ref = id, !.lastCandidate = r.letter,
                              !.sinceCandidate = 0]

\* The body of "if (isRecording) { ... }" for one hand: analyzeHandLandmarks (which
\* reports the distance and, at good distance, calls processWithGemini), then
\* recognizeLetter, then the restart of the timer.  debugInfo is display only and
\* is left out.
processHand(st, lm) ==
    LET r == frameReports[lm]
        analysed ==
            IF r.fingerStates.isNull
            THEN [st EXCEPT !.handDistance = r.distance, !.analysed = @ + 1]
            ELSE [st EXCEPT !.handDistance = r.distance, !.analysed = @ + 1,
                            !.inFlight = @ + 1, !.isProcessing = TRUE]
        kept == clearPending(analysed.timers, analysed.ref)
        id == freshTimerId(kept, analysed.ref)
    IN  IF r.letter = "TypeError" THEN [analysed EXCEPT !.threw = TRUE]
        ELSE IF r.letter = "null" THEN analysed
        ELSE [analysed EXCEPT !.timers = kept \cup {[id |-> id, letter |-> r.letter, age |-> 0]},
                              !.ref = id, !.lastCandidate = r.letter,
                              !.sinceCandidate = 0]

\* The for loop over results.multiHandLandmarks from hand k on; an exception ends it.
RECURSIVE processHands(_, _, _)
processHands(st, frame, k) ==
    IF k > Len(frame) \/ st.threw THEN st
    ELSE processHands(processHand(st, frame[k]), frame, k + 1)

\* The callback gated by the isRecording of the current render.
onResults_liveGate(frame) ==
    \E st \in {IF isRecording THEN processHands(HandlerState, frame, 1) ELSE HandlerState} :
        /\ isCameraOpen
        /\ st.inFlight <= MaxInFlight
        /\ timers' = st.timers
        /\ recognitionTimeout' = st.ref
        /\ handDistance' = st.handDistance
        /\ geminiInFlight' = st.inFlight
        /\ isProcessing' = st.isProcessing
        /\ lastCandidate' = st.lastCandidate
        /\ sinceCandidate' = st.sinceCandidate
        /\ onResultsStatus' = IF st.threw THEN "threw"
                              ELSE IF st.analysed > 0 THEN "analysed"
                              ELSE "drawn"
        /\ UNCHANGED <<isCameraOpen, isRecording, closureRecording, currentLetter,
                       lastRecognized, debounced, fired, arrivals, studyVars>>

\* One call of the callback registered by setupHandTracking, with the hands of one
\* frame.  It runs only while the hands instance is open.  The gate is the
\* isRecording the callback closed over.  canvasCtx.restore() is reached unless the
\* loop threw.
onResults(frame) ==
    \E st \in {IF closureRecording THEN processHands(HandlerState, frame, 1) ELSE HandlerState} :
        /\ isCameraOpen
        /\ st.inFlight <= MaxInFlight
        /\ timers' = st.timers
        /\ recognitionTimeout' = st.ref
        /\ handDistance' = st.handDistance
        /\ geminiInFlight' = st.inFlight
        /\ isProcessing' = st.isProcessing
        /\ lastCandidate' = st.lastCandidate
        /\ sinceCandidate' = st.sinceCandidate
        /\ onResultsStatus' = IF st.threw THEN "threw"
                              ELSE IF st.analysed > 0 THEN "analysed"
                              ELSE "drawn"
        /\ UNCHANGED <<isCameraOpen, isRecording, closureRecording, currentLetter,
                       lastRecognized, debounced, fired, arrivals, studyVars>>

----------------------------------------------------------------------------
(* The timer callback *)

\* The timer callback without the comparison to lastRecognizedRef.
accepts_always(letter, last) == TRUE

\* if (recognizedLetter !== lastRecognizedRef.current)
accepts(letter, last) == letter # last

\* The timer callback that appends without recording the letter in lastRecognizedRef.
timerFires_forgets(t) ==
    /\ t \in timers
    /\ Len(fired) < MaxFired
    /\ accepts(t.letter, lastRecognized) => Len(currentLetter) < MaxText
    /\ timers' = timers \ {t}
    /\ fired' = Append(fired, t.letter)
    /\ IF accepts(t.letter, lastRecognized)
       THEN /\ currentLetter' = Append(currentLetter, t.letter)
            /\ debounced' = Append(debounced, t.letter)
       ELSE UNCHANGED <<currentLetter, debounced>>
    /\ UNCHANGED <<isCameraOpen, isRecording, closureRecording, lastRecognized,
                   recognitionTimeout, handDistance, geminiInFlight, isProcessing,
                   onResultsStatus, lastCandidate, sinceCandidate, arrivals, studyVars>>

\* The timer callback comparing against every letter emitted so far instead of the
\* last one.
timerFires_dedupAll(t) ==
    /\ t \in timers
    /\ Len(fired) < MaxFired
    /\ Len(currentLetter) < MaxText
    /\ timers' = timers \ {t}
    /\ fired' = Append(fired, t.letter)
    /\ IF \A i \in 1..Len(debounced) : debounced[i] # t.letter
       THEN /\ lastRecognized' = t.letter
            /\ currentLetter' = Append(currentLetter, t.letter)
            /\ debounced' = Append(debounced, t.letter)
       ELSE UNCHANGED <<lastRecognized, currentLetter, debounced>>
    /\ UNCHANGED <<isCameraOpen, isRecording, closureRecording, recognitionTimeout,
                   handDistance, geminiInFlight, isProcessing, onResultsStatus, lastCandidate,
                   sinceCandidate, arrivals, studyVars>>

\* The callback passed to window.setTimeout, run for the pending timer t.
timerFires(t) ==
    /\ t \in timers
    /\ Len(fired) < MaxFired
    /\ accepts(t.letter, lastRecognized) => Len(currentLetter) < MaxText
    /\ timers' = timers \ {t}
    /\ fired' = Append(fired, t.letter)
    /\ IF accepts(t.letter, lastRecognized)
       THEN /\ lastRecognized' = t.letter
            /\ currentLetter' = Append(currentLetter, t.letter)
            /\ debounced' = Append(debounced, t.letter)
       ELSE UNCHANGED <<lastRecognized, currentLetter, debounced>>
    /\ UNCHANGED <<isCameraOpen, isRecording, closureRecording, recognitionTimeout,
                   handDistance, geminiInFlight, isProcessing, onResultsStatus, lastCandidate,
                   sinceCandidate, arrivals, studyVars>>

----------------------------------------------------------------------------
(* processWithGemini, from the answer of model.generateContent on *)

\* The test of processWithGemini with a comparison to lastRecognizedRef added.
geminiAppends_debounced(outcome) ==
    outcome # "reject" /\ outcome # "" /\ outcome # "unknown" /\ outcome # lastRecognized

\* if (recognizedLetter && recognizedLetter !== 'unknown')
geminiAppends(outcome) == outcome # "reject" /\ outcome # "" /\ outcome # "unknown"

\* The continuation of processWithGemini after the awaits, for the request that is
\* k-th oldest of those in flight: the requests are independent promises, and the
\* response of any of them may arrive next.
geminiArrives(k, outcome) ==
    /\ k \in 1..geminiInFlight
    /\ geminiAppends(outcome) => Len(currentLetter) < MaxText
    /\ geminiInFlight' = geminiInFlight - 1
    /\ isProcessing' = FALSE
    /\ currentLetter' = IF geminiAppends(outcome) THEN Append(currentLetter, outcome)
                        ELSE currentLetter
    /\ arrivals' = IF geminiAppends(outcome) THEN Append(arrivals, k) ELSE arrivals
    /\ UNCHANGED <<isCameraOpen, isRecording, closureRecording, lastRecognized,
                   recognitionTimeout, timers, handDistance, onResultsStatus,
                   debounced, fired, lastCandidate, sinceCandidate, studyVars>>

\* The response to the oldest request in flight.  What the App does with a response
\* does not depend on the request it answers, so the specifications that do not
\* study the order of the responses let the oldest one arrive.
geminiSettles(outcome) == geminiArrives(1, outcome)

----------------------------------------------------------------------------

Next ==
    \/ startCamera
    \/ stopCamera
    \/ toggleRecording
    \/ clearText
    \/ \E frame \in Frames : onResults(frame)
    \/ \E t \in timers : timerFires(t)
    \/ \E outcome \in GeminiOutcomes : geminiSettles(outcome)

Spec == Init /\ [][Next]_vars

----------------------------------------------------------------------------
(* The App component with every answer of the classification service *)

NextGemini ==
    \/ startCamera
    \/ stopCamera
    \/ toggleRecording
    \/ clearText
    \/ \E frame \in GeminiFrames : onResults(frame)
    \/ \E t \in timers : timerFires(t)
    \/ \E outcome \in GeminiResponses : geminiSettles(outcome)

SpecGemini == Init /\ [][NextGemini]_vars

----------------------------------------------------------------------------
(* The App component with the responses of the classification service arriving in
   any order *)

\* The answers the order of the responses is studied on.
RequestOutcomes == {"A", "B", "unknown"}

NextRequests ==
    \/ startCamera
    \/ stopCamera
    \/ toggleRecording
    \/ clearText
    \/ \E frame \in GeminiFrames : onResults(frame)
    \/ \E t \in timers : timerFires(t)
    \/ \E k \in 1..geminiInFlight, outcome \in RequestOutcomes : geminiArrives(k, outcome)

SpecRequests == Init /\ [][NextRequests]_vars

----------------------------------------------------------------------------
(* The App component with the delay of the timer measured *)

\* 100 ms pass: every pending timer is 100 ms older.
tick ==
    /\ timers' = {[t EXCEPT !.age = MathMin(@ + 1, DebounceDelay)] : t \in timers}
    /\ sinceCandidate' = MathMin(sinceCandidate + 1, DebounceDelay)
    /\ UNCHANGED <<isCameraOpen, isRecording, closureRecording, currentLetter,
                   lastRecognized, recognitionTimeout, handDistance, geminiInFlight,
                   isProcessing, onResultsStatus, debounced, fired, lastCandidate,
                   arrivals, studyVars>>

\* window.setTimeout(callback, 500): the browser runs the callback of a pending
\* timer no sooner than 500 ms after the call; it may run it later.
timerDue(t) ==
    /\ t.age >= DebounceDelay
    /\ timerFires(t)

\* The frames the delay is studied on: no hand, a hand showing A, a hand showing B,
\* a hand at good distance that matches no letter.
TimedFrames == {<<>>, <<PoseA>>, <<PoseB>>, <<PoseNoLetter>>}

NextTimed ==
    \/ startCamera
    \/ stopCamera
    \/ toggleRecording
    \/ clearText
    \/ \E frame \in TimedFrames : onResults(frame)
    \/ tick
    \/ \E t \in timers : timerDue(t)
    \/ geminiSettles("unknown")

SpecTimed == Init /\ [][NextTimed]_vars

----------------------------------------------------------------------------
(* analyzeHandLandmarks on its own, over the input hands *)

InitAnalyze ==
    /\ AppInit
    /\ landmarks \in HandInputs
    /\ analyzeStatus = "pending"
    /\ NoVector
    /\ NoImage
    /\ NoPixel

\* One call analyzeHandLandmarks(landmarks) with recording off: the distance is
\* reported, then either a property of an absent landmark is read and the call ends
\* in a TypeError, or the value is returned.
analyze ==
    /\ analyzeStatus = "pending"
    /\ handDistance' = calculateHandSize(landmarks)
    /\ analyzeStatus' = IF analyzeThrows(landmarks) THEN "TypeError" ELSE "returned"
    /\ fingerStates' = IF analyzeThrows(landmarks) THEN fingerStates
                       ELSE analyzeHandLandmarks(landmarks)
    /\ UNCHANGED <<sessionVars, landmarks, recognizedLetter, imageData, scan,
                   boundingBox, pixel, hsv, skin>>

\* One call recognizeLetter(fingerStates), on the value analyzeHandLandmarks
\* returned or on a vector given directly.
recognize ==
    /\ analyzeStatus \in {"none", "returned"}
    /\ recognizedLetter = "pending"
    /\ recognizedLetter' = recognizeLetter(fingerStates)
    /\ UNCHANGED <<sessionVars, handDistance, landmarks, analyzeStatus, fingerStates,
                   imageData, scan, boundingBox, pixel, hsv, skin>>

NextAnalyze == analyze \/ recognize

SpecAnalyze == InitAnalyze /\ [][NextAnalyze]_vars

----------------------------------------------------------------------------
(* analyzeHandLandmarks over hands of fewer than 21 landmarks *)

InitInvalid ==
    /\ AppInit
    /\ landmarks \in ShortHands
    /\ analyzeStatus = "pending"
    /\ NoVector
    /\ NoImage
    /\ NoPixel

SpecInvalid == InitInvalid /\ [][NextAnalyze]_vars

----------------------------------------------------------------------------
(* recognizeLetter on its own, over every finger-state vector *)

InitMatch ==
    /\ AppInit
    /\ NoHand
    /\ fingerStates \in VectorInputs
    /\ recognizedLetter = "pending"
    /\ NoImage
    /\ NoPixel

NextMatch == recognize

SpecMatch == InitMatch /\ [][NextMatch]_vars

----------------------------------------------------------------------------
(* findLargestContour over the masks *)

InitContour ==
    /\ AppInit
    /\ NoHand
    /\ NoVector
    /\ imageData \in ImageInputs
    /\ scan = IdleScan
    /\ boundingBox = PendingBox
    /\ NoPixel

\* One call findLargestContour(imageData).
findLargestContour ==
    /\ boundingBox.status = "pending"
    /\ scan' = scanFrom(imageData, IdleScan, 0)
    /\ boundingBox' = contourResult(imageData, scan')
    /\ UNCHANGED <<sessionVars, handDistance, landmarks, analyzeStatus, fingerStates,
                   recognizedLetter, imageData, pixel, hsv, skin>>

NextContour == findLargestContour

SpecContour == InitContour /\ [][NextContour]_vars

----------------------------------------------------------------------------
(* isSkinColor(rgbToHsv(r, g, b)) over the pixels, as detectSkin calls them *)

InitSkin ==
    /\ AppInit
    /\ NoHand
    /\ NoVector
    /\ NoImage
    /\ pixel \in PixelInputs
    /\ hsv = IdleHsv
    /\ skin = "pending"

\* One iteration of the loop of detectSkin.
classifyPixel ==
    /\ skin = "pending"
    /\ hsv' = rgbToHsv(pixel.r, pixel.g, pixel.b)
    /\ skin' = IF isSkinColor(hsv') THEN "yes" ELSE "no"
    /\ UNCHANGED <<sessionVars, handDistance, landmarks, analyzeStatus, fingerStates,
                   recognizedLetter, imageData, scan, boundingBox, pixel>>

NextSkin == classifyPixel

SpecSkin == InitSkin /\ [][NextSkin]_vars

----------------------------------------------------------------------------
(* Properties *)

Letters == {ASL_LETTERS[k].letter : k \in 1..Len(ASL_LETTERS)}

\* C1: a hand frame whose size is out of range, met while recognition is active, is
\* skipped as a normal condition: the distance hint is reported and the callback
\* raises no exception and completes (remaining hands, canvas restore).
C1_OutOfRangeFrameIsSkipped ==
    handDistance \in {"too_far", "too_close"} => onResultsStatus # "threw"

\* C2: a hand frame delivered while the camera is open is analysed if and only if
\* recording is on at the moment the frame arrives.
C2_AnalysedIffRecording ==
    [][\A frame \in Frames :
          (Len(frame) > 0 /\ onResults(frame))
              => ((onResultsStatus' \in {"analysed", "threw"}) <=> isRecording)]_vars

\* C3: when every timer that has run since the text was last empty carried the
\* same letter L, the debouncer has appended L exactly once, however many times the
\* timer ran; before any timer ran it has appended nothing.
C3_HeldLetterAppendedOnce ==
    /\ fired = <<>> => debounced = <<>>
    /\ (fired # <<>> /\ \A i \in 1..Len(fired) : fired[i] = fired[1])
           => debounced = <<fired[1]>>

C3_Witness == fired = <<"A", "A">> /\ debounced = <<"A">>

\* C4: when the timers that ran carried A, then B, then A again, the debouncer
\* appended exactly A, B, A in that order.
C4_ReturnToLetterEmitsAgain ==
    \A a \in Letters : \A b \in Letters \ {a} :
        fired = <<a, b, a>> => debounced = <<a, b, a>>

C4_Witness == fired = <<"A", "B", "A">> /\ debounced = <<"A", "B", "A">>

\* C5: when the timer fires for letter L, L is appended once and lastRecognized
\* becomes L if L differs from lastRecognized as it is at that moment; otherwise
\* neither the text nor lastRecognized changes.
C5_FireComparesWithLastRecognized ==
    [][\A t \in timers :
          (timers' = timers \ {t} /\ fired' = Append(fired, t.letter))
              => IF t.letter # lastRecognized
                 THEN /\ currentLetter' = Append(currentLetter, t.letter)
                      /\ lastRecognized' = t.letter
                 ELSE /\ currentLetter' = currentLetter
                      /\ lastRecognized' = lastRecognized]_vars

C5_Witness ==
    /\ Len(fired) = 3 /\ fired[1] = fired[2] /\ fired[3] # fired[2]
    /\ debounced = <<fired[1], fired[3]>>
    /\ lastRecognized = fired[3]

\* C6: at most one debounce timer is pending, and it is the one
\* recognitionTimeoutRef names.
C6_AtMostOneTimerPending ==
    /\ Cardinality(timers) <= 1
    /\ \A t \in timers : t.id = recognitionTimeout

C6_Witness ==
    /\ recognitionTimeout = 2
    /\ \E t \in timers : t.id = 2 /\ t.letter = "B"
    /\ onResultsStatus = "analysed"

C8_NoAppendWhileStopped ==
    [][~isRecording => Len(debounced') <= Len(debounced)]_vars

\* C9: clearText empties the text and lastRecognized, and the first timer that
\* fires afterwards has its letter accepted.
C9_ClearResets ==
    /\ [](fired = <<>> => lastRecognized = "")
    /\ [](fired # <<>> => (debounced # <<>> /\ debounced[1] = fired[1]))
    /\ [][(fired # <<>> /\ fired' = <<>>)
             => (currentLetter' = <<>> /\ lastRecognized' = "")]_vars

C9_Witness ==
    /\ currentLetter = <<>> /\ lastRecognized = "" /\ fired = <<>>
    /\ recognitionTimeout # 0
    /\ timers = {}

\* The bounding-box size of a hand, from the definition: the larger of the spans of
\* the x and of the y coordinates.
Span(vs) == (CHOOSE hi \in vs : \A v \in vs : v <= hi) - (CHOOSE lo \in vs : \A v \in vs : lo <= v)
SizeOf(lm) ==
    LET w == Span({lm[n].x : n \in 1..Len(lm)})
        h == Span({lm[n].y : n \in 1..Len(lm)})
    IN  IF w > h THEN w ELSE h

\* C10: analyze returns finger states and reports good exactly when
\* 0.1 <= size <= 0.8; below 0.1 it returns null and reports too_far, above 0.8 it
\* returns null and reports too_close.
C10_DistanceGate ==
    handDistance # "null" =>
        /\ (10 <= SizeOf(landmarks) /\ SizeOf(landmarks) <= 80)
               <=> (handDistance = "good" /\ ~fingerStates.isNull)
        /\ SizeOf(landmarks) < 10 => (handDistance = "too_far" /\ fingerStates.isNull)
        /\ SizeOf(landmarks) > 80 => (handDistance = "too_close" /\ fingerStates.isNull)

C10_Witness ==
    /\ SizeOf(landmarks) = 10
    /\ handDistance = "good"
    /\ ~fingerStates.isNull

\* The extension test of C11 for a finger other than the thumb, on landmark numbers.
RefExtended(lm, tip, mcp, pip) ==
    /\ lm[tip + 1].y < lm[mcp + 1].y - 10
    /\ lm[tip + 1].y < lm[pip + 1].y - 10

\* C11: for every hand at good distance the finger-state vector is the reference one:
\* thumb iff |x[4] - x[2]| > 0.1, whatever the y coordinates; index, middle, ring and
\* pinky iff the tip is more than 0.1 above the mcp and more than 0.1 above the pip.
C11_FingerStatesAreReference ==
    (analyzeStatus = "returned" /\ handDistance = "good") =>
        fingerStates =
            [isNull |-> FALSE,
             thumb |-> MathAbs(landmarks[5].x - landmarks[3].x) > 10,
             index |-> RefExtended(landmarks, 8, 6, 7),
             middle |-> RefExtended(landmarks, 12, 10, 11),
             ring |-> RefExtended(landmarks, 16, 14, 15),
             pinky |-> RefExtended(landmarks, 20, 18, 19),
             isCurved |-> FALSE]

\* A lifted thumb 0.11 to the side is extended, and an index tip exactly 0.1 above
\* its mcp is not.
C11_Witness ==
    /\ analyzeStatus = "returned"
    /\ handDistance = "good"
    /\ landmarks[5].y # landmarks[3].y
    /\ landmarks[5].x - landmarks[3].x = 11
    /\ landmarks[9].y = landmarks[7].y - 10
    /\ fingerStates.thumb
    /\ ~fingerStates.index

\* The matcher of C12: a pattern that specifies isCurved, true or false, requires it.
RefPatternMatches(pattern, fs) ==
    /\ pattern.thumb = fs.thumb
    /\ pattern.index = fs.index
    /\ pattern.middle = fs.middle
    /\ pattern.ring = fs.ring
    /\ pattern.pinky = fs.pinky
    /\ \/ pattern.curved = "absent"
       \/ (pattern.curved = "true") = fs.isCurved

RefMatch(fs) ==
    LET hits == {k \in 1..Len(ASL_LETTERS) : RefPatternMatches(ASL_LETTERS[k], fs)}
    IN  IF hits = {} THEN "null"
        ELSE ASL_LETTERS[CHOOSE k \in hits : \A j \in hits : k <= j].letter

\* C12: for each of the 64 finger-state vectors recognizeLetter returns the first
\* pattern whose five flags equal the vector's and whose isCurved, when the pattern
\* specifies one (true or false), equals the vector's; null when there is none.
C12_MatcherHonoursIsCurved ==
    (recognizedLetter # "pending" /\ ~fingerStates.isNull) =>
        recognizedLetter = RefMatch(fingerStates)

SameFlags(p, q) ==
    /\ p.thumb = q.thumb
    /\ p.index = q.index
    /\ p.middle = q.middle
    /\ p.ring = q.ring
    /\ p.pinky = q.pinky

IndexOf(letter) == CHOOSE k \in 1..Len(ASL_LETTERS) : ASL_LETTERS[k].letter = letter

\* C13, as stated: analyze then match returns, among the patterns that share the
\* same five flags, only the one that comes first in the table.
C13_OnlyFirstOfGroup ==
    recognizedLetter \in Letters =>
        \A k \in 1..(IndexOf(recognizedLetter) - 1) :
            ~SameFlags(ASL_LETTERS[k], ASL_LETTERS[IndexOf(recognizedLetter)])

\* C13, amended: analyze then match returns, among the patterns that share the same
\* five flags, only the first one that does not require isCurved = true; a pattern
\* that requires isCurved = true and every later pattern of the group is never
\* returned.
C13_OnlyFirstNotCurvedOfGroup ==
    recognizedLetter \in Letters =>
        /\ ASL_LETTERS[IndexOf(recognizedLetter)].curved # "true"
        /\ \A k \in 1..(IndexOf(recognizedLetter) - 1) :
              SameFlags(ASL_LETTERS[k], ASL_LETTERS[IndexOf(recognizedLetter)])
                  => ASL_LETTERS[k].curved = "true"

\* The hand with all five fingers extended gives W, the second pattern of its group.
C13_Witness ==
    /\ analyzeStatus = "returned"
    /\ fingerStates.thumb /\ fingerStates.index /\ fingerStates.middle
    /\ fingerStates.ring /\ fingerStates.pinky
    /\ recognizedLetter = "W"

Adjacent8(p, q) == p # q /\ MathAbs(p[1] - q[1]) <= 1 /\ MathAbs(p[2] - q[2]) <= 1

\* The 8-connected white component that contains the pixels S.
RECURSIVE ComponentOf(_, _)
ComponentOf(white, S) ==
    LET T == S \cup {q \in white : \E p \in S : Adjacent8(p, q)}
    IN  IF T = S THEN S ELSE ComponentOf(white, T)

Components(img) == {ComponentOf(img.white, {p}) : p \in img.white}

\* The raster position of the first pixel of a component.
RasterFirst(img, c) ==
    LET at == {p[2] * img.width + p[1] : p \in c}
    IN  CHOOSE k \in at : \A j \in at : k <= j

\* The component of maximum pixel count, the earliest in raster order among equals.
Winner(img) ==
    LET comps == Components(img)
    IN  CHOOSE c \in comps : \A d \in comps :
            \/ Cardinality(c) > Cardinality(d)
            \/ Cardinality(c) = Cardinality(d) /\ RasterFirst(img, c) <= RasterFirst(img, d)

BoxOf(c) ==
    LET xs == {p[1] : p \in c}
        ys == {p[2] : p \in c}
        minX == CHOOSE v \in xs : \A u \in xs : v <= u
        maxX == CHOOSE v \in xs : \A u \in xs : v >= u
        minY == CHOOSE v \in ys : \A u \in ys : v <= u
        maxY == CHOOSE v \in ys : \A u \in ys : v >= u
    IN  Box("box", minX, minY, maxX - minX, maxY - minY)

\* C14: for a mask with a white pixel findLargestContour returns the bounding box of
\* the pixels of one 8-connected white component of maximum pixel count, the one
\* whose first pixel is earliest in raster order when several share the maximum.
C14_BoxOfLargestComponent ==
    (boundingBox.status # "pending" /\ imageData.white # {}) =>
        /\ {scan.largestContour[k] : k \in 1..Len(scan.largestContour)} = Winner(imageData)
        /\ boundingBox = BoxOf(Winner(imageData))

\* Two blobs of different sizes, and a pixel of the smaller one left of the box.
C14_Witness ==
    /\ boundingBox.status = "box"
    /\ Cardinality(Components(imageData)) = 2
    /\ \E c \in Components(imageData) :
          /\ Cardinality(c) < scan.maxArea
          /\ \E p \in c : p[1] < boundingBox.x

\* C15: findLargestContour returns null exactly when the mask has no white pixel, and
\* null is a returned value: the call ends with null or with a box.
C15_NullIffNoWhitePixel ==
    boundingBox.status # "pending" =>
        /\ boundingBox.status \in {"null", "box"}
        /\ boundingBox.status = "null" <=> imageData.white = {}

\* The all-black mask.
C15_Witness ==
    /\ boundingBox = NullBox
    /\ imageData.width * imageData.height > 0
    /\ imageData.white = {}
    /\ scan.contours = <<>>

UppercaseLetters ==
    {"A", "B", "C", "D", "E", "F", "G", "H", "I", "J", "K", "L", "M",
     "N", "O", "P", "Q", "R", "S", "T", "U", "V", "W", "X", "Y", "Z"}

\* C16: when the classification call rejects or its response is anything but one
\* uppercase letter or the token unknown, the output text and lastRecognized stay as
\* they are and the processing flag is cleared.
C16_FailureNeverReachesText ==
    [][\A outcome \in GeminiResponses \ (UppercaseLetters \cup {"unknown"}) :
          geminiSettles(outcome) =>
              /\ currentLetter' = currentLetter
              /\ lastRecognized' = lastRecognized
              /\ isProcessing' = FALSE]_vars

\* C17: a response that is one uppercase letter is appended once when it arrives,
\* without a timer and without a comparison to lastRecognized, which stays as it is;
\* the response unknown appends nothing.
C17_DirectAppend ==
    [][\A outcome \in GeminiResponses \cap (UppercaseLetters \cup {"unknown"}) :
          geminiSettles(outcome) =>
              /\ currentLetter' = IF outcome = "unknown" THEN currentLetter
                                  ELSE Append(currentLetter, outcome)
              /\ lastRecognized' = lastRecognized
              /\ recognitionTimeout' = recognitionTimeout
              /\ timers' = timers
              /\ debounced' = debounced]_vars

\* The timer appended A once, lastRecognized is A, and the text holds a second A.
C17_Witness ==
    /\ currentLetter = <<"A", "A">>
    /\ debounced = <<"A">>
    /\ lastRecognized = "A"
    /\ geminiInFlight = 0

\* C18: a hand of fewer than 21 landmarks is rejected with an explicit
\* invalid-landmark-set error: no distance is reported, no finger state is computed,
\* no value is returned.
C18_ShortHandRejected ==
    (Len(landmarks) < 21 /\ analyzeStatus # "pending") =>
        /\ analyzeStatus = "invalid landmark set"
        /\ handDistance = "null"
        /\ fingerStates = NullStates

\* The classifier of C19: s and v bounded by 100.
PercentSkin(c) ==
    /\ c.h >= 0
    /\ c.h <= 20
    /\ c.sNum >= 20 * c.sDen
    /\ c.sNum <= 100 * c.sDen
    /\ c.vNum >= 70 * c.vDen
    /\ c.vNum <= 100 * c.vDen

\* C19: on every triple rgbToHsv produces, isSkinColor with the literal bounds 255
\* answers as the classifier with h in [0, 20], s in [20, 100], v in [70, 100].
C19_LiteralBoundsArePercentBounds ==
    skin # "pending" =>
        /\ hsv = rgbToHsv(pixel.r, pixel.g, pixel.b)
        /\ skin = "yes" <=> PercentSkin(hsv)

\* Pure red: s = 100 and v = 100, the upper ends of the percent ranges, is skin.
C19_Witness ==
    /\ skin = "yes"
    /\ hsv.sNum = 100 * hsv.sDen
    /\ hsv.vNum = 100 * hsv.vDen

\* C20: a pending timer carries the most recent candidate, and the letter a firing
\* timer hands to its callback is the most recent candidate: the timer of a candidate
\* that another candidate followed was cancelled.
C20_LastCandidateWins ==
    [][/\ \A t \in timers : t.letter = lastCandidate
       /\ \A t \in timers : timerFires(t) => fired' = Append(fired, lastCandidate)]_vars

\* A was a candidate and its timer ran; B is the candidate now and the only timer.
C20_Witness ==
    /\ fired = <<"A">>
    /\ lastCandidate = "B"
    /\ Cardinality(timers) = 1
    /\ \A t \in timers : t.letter = "B"

\* The pixels a contour lists.
Members(contour) == {contour[k] : k \in 1..Len(contour)}

\* C21: from every white seed floodFill returns exactly the white pixels reachable
\* from it through 8-neighbour steps, each listed once, with area their number; the
\* raster scan starts floodFill once per component and puts every white pixel into
\* exactly one of the contours found.
C21_FloodFillFindsComponents ==
    boundingBox.status # "pending" =>
        LET comps == Components(imageData)
        IN  /\ \A p \in imageData.white :
                  LET f == floodFill(imageData, {}, p[1], p[2])
                      members == Members(f.contour)
                  IN  /\ members \in comps
                      /\ p \in members
                      /\ Len(f.contour) = Cardinality(members)
                      /\ f.area = Len(f.contour)
            /\ Len(scan.contours) = Cardinality(comps)
            /\ Len(scan.areas) = Len(scan.contours)
            /\ \A k \in 1..Len(scan.contours) :
                  /\ Members(scan.contours[k]) \in comps
                  /\ Len(scan.contours[k]) = Cardinality(Members(scan.contours[k]))
                  /\ scan.areas[k] = Len(scan.contours[k])
            /\ \A p \in imageData.white :
                  Cardinality({k \in 1..Len(scan.contours) :
                                   p \in Members(scan.contours[k])}) = 1

\* Three pixels that touch only by their corners are one component of area 3.
C21_Witness ==
    /\ boundingBox.status = "box"
    /\ imageData.white = {<<0, 0>>, <<1, 1>>, <<2, 2>>}
    /\ scan.areas = <<3>>

\* C28: the box has x and y at the least member column and row, width and height
\* the differences to the greatest ones: every member lies within
\* [x, x + width] by [y, y + height], each bound is attained, the box lies within the
\* frame, and a one-pixel component gives width 0 and height 0.
C28_BoxIsMinMax ==
    boundingBox.status = "box" =>
        LET M == Members(scan.largestContour)
            b == boundingBox
        IN  /\ \A p \in M : /\ b.x <= p[1] /\ p[1] <= b.x + b.width
                            /\ b.y <= p[2] /\ p[2] <= b.y + b.height
            /\ \E p \in M : p[1] = b.x
            /\ \E p \in M : p[1] = b.x + b.width
            /\ \E p \in M : p[2] = b.y
            /\ \E p \in M : p[2] = b.y + b.height
            /\ 0 <= b.x /\ b.x + b.width <= imageData.width - 1
            /\ 0 <= b.y /\ b.y + b.height <= imageData.height - 1
            /\ Cardinality(M) = 1 => (b.width = 0 /\ b.height = 0)

\* The mask whose only white pixel is (2, 1).
C28_Witness ==
    /\ imageData.white = {<<2, 1>>}
    /\ boundingBox = Box("box", 2, 1, 0, 0)

\* The work of the loops of findLargestContour on the mask is bounded: the visited
\* set ends as the indices of the white pixels, only white in-bounds pixels are
\* pushed, a pixel is pushed at most once as a seed and once by each of its white
\* neighbours (8 at most), and of two adjacent white pixels only the one processed
\* first pushes the other.
WorkIsBounded ==
    /\ scan.visited = {getPixelIndex(imageData, p[1], p[2]) : p \in imageData.white}
    /\ Len(scan.pushLog) = scan.pushes
    /\ scan.pops = scan.pushes
    /\ \A k \in 1..Len(scan.pushLog) : scan.pushLog[k] \in imageData.white
    /\ \A p \in imageData.white :
          /\ Cardinality({k \in 1..Len(scan.pushLog) : scan.pushLog[k] = p})
                <= 1 + Cardinality({q \in imageData.white : Adjacent8(p, q)})
          /\ Cardinality({q \in imageData.white : Adjacent8(p, q)}) <= 8
    /\ 2 * (scan.pushes - Len(scan.contours))
          <= Cardinality({pq \in imageData.white \X imageData.white :
                              Adjacent8(pq[1], pq[2])})

\* C29: findLargestContour returns on every mask, its loops having done bounded
\* work: every iteration of a floodFill loop pops one pixel, so the iterations are
\* as many as the pushes, which WorkIsBounded bounds.
C29_FloodFillWorkIsBounded ==
    boundingBox.status # "pending" => WorkIsBounded

\* The all-white mask: one fill, and more pushes than pixels.
C29_Witness ==
    /\ boundingBox.status = "box"
    /\ Cardinality(imageData.white) = imageData.width * imageData.height
    /\ Len(scan.contours) = 1
    /\ scan.pushes > Cardinality(imageData.white)

\* One of the five extension tests of C11 is true of the hand.
AnyFingerTest(lm) ==
    \/ MathAbs(lm[5].x - lm[3].x) > 10
    \/ RefExtended(lm, 8, 6, 7)
    \/ RefExtended(lm, 12, 10, 11)
    \/ RefExtended(lm, 16, 14, 15)
    \/ RefExtended(lm, 20, 18, 19)

\* C27: a 21-landmark hand of which one of the five extension tests is true has a
\* bounding-box size above 0.1, so a hand judged too_far has no extended finger; a
\* hand of size exactly 0.1 is judged good, all its finger states are false and it
\* matches no letter.
C27_ExtendedFingerIsNeverTooFar ==
    /\ AnyFingerTest(landmarks) => SizeOf(landmarks) > 10
    /\ handDistance = "too_far" => ~AnyFingerTest(landmarks)
    /\ (analyzeStatus = "returned" /\ SizeOf(landmarks) = 10) =>
          /\ handDistance = "good"
          /\ fingerStates =
                [isNull |-> FALSE, thumb |-> FALSE, index |-> FALSE, middle |-> FALSE,
                 ring |-> FALSE, pinky |-> FALSE, isCurved |-> FALSE]
          /\ recognizedLetter \in {"pending", "null"}

\* A hand of size exactly 0.1 whose thumb tip is exactly 0.1 beside its mcp.
C27_Witness ==
    /\ analyzeStatus = "returned"
    /\ SizeOf(landmarks) = 10
    /\ landmarks[5].x - landmarks[3].x = 10
    /\ handDistance = "good"
    /\ recognizedLetter = "null"

\* The hands that are at good distance, have a finger-state vector and match no
\* letter, and the frames of one or two such hands.
NoLetterHands ==
    {lm \in FrameHands :
        /\ SizeOf(lm) >= 10
        /\ SizeOf(lm) <= 80
        /\ RefMatch(analyzeHandLandmarks(lm)) = "null"}

NoLetterFrames == UNION {[1..n -> NoLetterHands] : n \in 1..maxNumHands}

\* C22: an analysed frame whose hands are at good distance and match no letter
\* raises no error and leaves the pending timers, the timer reference,
\* lastRecognized and the output text as they were.
C22_NoMatchIsSkipped ==
    [][\A frame \in NoLetterFrames :
          (closureRecording /\ onResults(frame)) =>
              /\ onResultsStatus' = "analysed"
              /\ handDistance' = "good"
              /\ timers' = timers
              /\ recognitionTimeout' = recognitionTimeout
              /\ lastRecognized' = lastRecognized
              /\ currentLetter' = currentLetter
              /\ debounced' = debounced]_vars

\* A timer for A is still pending, the last letter appended is B, and the last
\* frame was analysed at good distance.
C22_Witness ==
    /\ onResultsStatus = "analysed"
    /\ handDistance = "good"
    /\ \E t \in timers : t.id = recognitionTimeout /\ t.letter = "A"
    /\ lastRecognized = "B"
    /\ currentLetter = <<"B">>

C25_ClearTextKeepsTimer ==
    [][/\ (currentLetter' = <<>> /\ lastRecognized' = "" /\ fired' = <<>>
             /\ (currentLetter # <<>> \/ lastRecognized # "" \/ fired # <<>>))
          => (timers' = timers /\ recognitionTimeout' = recognitionTimeout)
       /\ \A t \in timers :
             (lastRecognized = "" /\ timerFires(t)) =>
                 /\ currentLetter' = Append(currentLetter, t.letter)
                 /\ lastRecognized' = t.letter]_vars

\* The only timer ran on an empty text with lastRecognized empty although an
\* earlier candidate had been recognized: its letter is the text.
C25_Witness ==
    /\ timers = {}
    /\ recognitionTimeout # 0
    /\ fired = <<"A">>
    /\ currentLetter = <<"A">>
    /\ lastRecognized = "A"
    /\ geminiInFlight = 0

\* C26: lastRecognized is empty or the letter the timer callback appended last since
\* the last clearText, and it is that letter whenever there is one; no two letters
\* the timer callback appended one after the other are equal.
C26_LastRecognizedIsLastAppended ==
    /\ lastRecognized = "" \/ (debounced # <<>> /\ lastRecognized = debounced[Len(debounced)])
    /\ debounced # <<>> => lastRecognized = debounced[Len(debounced)]
    /\ \A i \in 1..(Len(debounced) - 1) : debounced[i] # debounced[i + 1]

C26_Witness ==
    /\ debounced = <<"A", "B", "A">>
    /\ lastRecognized = "A"
    /\ isRecording

\* C24: while the last frame with a letter is less than 500 ms old the timer
\* callback does not run and the debouncer appends nothing; every run of the timer
\* callback, and so every letter the debouncer appends, comes 500 ms or more after
\* the last frame with a letter.
C24_DebouncerWaitsForQuietWindow ==
    [][/\ sinceCandidate < DebounceDelay =>
             /\ fired' = fired \/ fired' = <<>>
             /\ debounced' = debounced \/ debounced' = <<>>
       /\ \A t \in timers : timerDue(t) => sinceCandidate = DebounceDelay
       /\ Len(debounced') > Len(debounced) => sinceCandidate = DebounceDelay]_vars

\* A was held for 400 ms after its first frame and shown again, then 500 ms passed
\* without a letter and the timer appended A: one letter, one run of the callback.
C24_Witness ==
    /\ debounced = <<"A">>
    /\ fired = <<"A">>
    /\ timers = {}
    /\ sinceCandidate = DebounceDelay
    /\ lastCandidate = "A"
    /\ geminiInFlight = MaxInFlight

====
